---- MODULE Spec2Model ----
(***************************************************************************)
(* Touch pointers of MixedReality-UXTools-Unreal: UTouchPointer keeps a    *)
(* set of weak handles to the targets it touches, walks the attachment     *)
(* hierarchy on overlap begin/end, and notifies targets of touch and pinch *)
(* start/end.  The model follows Source/MixedRealityTools/Private/         *)
(* TouchPointer.cpp function by function.                                  *)
(***************************************************************************)
EXTENDS Integers, Sequences, FiniteSets, TLC

\* ------------------------------------------------------------------ scene

\* The null USceneComponent* / the end of an attachment chain.
None == "None"

\* The scene components of the level the pointers move in.
Nodes == {"Root", "Loose", "A", "ColA1", "ColA2", "B"}

\* The pointer components (two hands).
Ptrs == {"LeftHand", "RightHand"}

\* GetAttachParent() of every component when the level starts:
\*   Root -+- Loose
\*         +- A -+- ColA1 --- B
\*               +- ColA2
SceneParent ==
    [n \in Nodes |->
        CASE n = "Root"  -> None
          [] n = "Loose" -> "Root"
          [] n = "A"     -> "Root"
          [] n = "ColA1" -> "A"
          [] n = "ColA2" -> "A"
          [] n = "B"     -> "ColA1"]

\* The components whose class implements ITouchPointerTarget.
Implementers == {"A", "B"}

\* The radii of a touch sphere: the one the class declares, and another one
\* that SetTouchRadius may be given.
DefaultRadius == "Default"
Radii == {DefaultRadius, "Other"}

\* How many components the level may destroy in one run.
MaxDestroyed == 1

\* ------------------------------------------------------------------ state

VARIABLES
    Pointers,        \* static TArray<UTouchPointer*>: the process-wide registry
    bHasBegunPlay,   \* per pointer: between BeginPlay and EndPlay
    TouchedTargets,  \* per pointer: the weak handles it holds
    bIsPinched,      \* per pointer: the pinch flag
    TouchRadius,     \* per pointer: the radius of its touch sphere
    AttachParent,    \* per component: its attach parent, or None
    valid,           \* the components a weak handle still resolves to
    last,            \* the call that made this state, and what it emitted
    before,          \* the call before it (kept by the overlap-tracking runs)
    begun,           \* per pointer: the nodes with a begin and no end yet
                     \*   (kept by the overlap-tracking runs)
    history,         \* what the targets have been told by the tracked pointer
                     \*   (kept by the overlap-tracking runs)
    follow,          \* the members of the UFollowComponent and its owner's transform
    tick             \* the follow component's last call, and the state it was made in

vars == <<Pointers, bHasBegunPlay, TouchedTargets, bIsPinched, TouchRadius, AttachParent,
          valid, last, before, begun, history, follow, tick>>

\* ----------------------------------------------------------- notifications

\* ITouchPointerTarget::Execute_<ev>(comp, this)
Notify(ev, comp, p) == [ev |-> ev, comp |-> comp, pointer |-> p]

\* The notifications of kind ev, to comp, in a sequence of notifications.
Count(evs, ev, comp) ==
    Cardinality({i \in 1..Len(evs) : evs[i].ev = ev /\ evs[i].comp = comp})

CountKind(evs, ev) ==
    Cardinality({i \in 1..Len(evs) : evs[i].ev = ev})

\* ------------------------------------------------------------- the pointer

ImplementsTargetInterface(obj) == obj \in Implementers

\* Get() without the validity check: a stale handle resolves to the
\* destroyed component.
GetUnchecked(wComp) == wComp

\* TWeakObjectPtr::Get(): the component, or None once it is destroyed.
Get(wComp) == IF wComp \in valid THEN wComp ELSE None

\* The orders in which a range-for may visit the elements of the set S.
Orders(S) ==
    {o \in [1..Cardinality(S) -> S] : \A i, j \in 1..Cardinality(S) : o[i] = o[j] => i = j}

\* TryStartTouching without the climb to the attach parent: only comp itself
\* is tested.
StartWalkSelfOnly(comp) ==
    IF comp # None /\ ImplementsTargetInterface(comp) THEN comp ELSE None

\* The loop of TryStartTouching: the first component on the chain from comp
\* upwards that implements the target interface, or None.
RECURSIVE StartWalk(_)
StartWalk(comp) ==
    IF comp = None THEN None
    ELSE IF ImplementsTargetInterface(comp) THEN comp
    ELSE StartWalk(AttachParent[comp])

\* TryStartTouching that tells the target of a pinch whether or not the
\* pointer is pinching.
StartNotificationsAlwaysPinch(p, comp) ==
    <<Notify("TouchStarted", comp, p), Notify("PinchStarted", comp, p)>>

\* What TryStartTouching tells a target it found.
StartNotifications(p, comp) ==
    <<Notify("TouchStarted", comp, p)>>
        \o (IF bIsPinched[p] THEN <<Notify("PinchStarted", comp, p)>> ELSE <<>>)

\* The loop of TryStopTouching: the first component on the chain from comp
\* upwards that TouchedTargets.Remove() finds, or None.
RECURSIVE StopWalk(_, _)
StopWalk(p, comp) ==
    IF comp = None THEN None
    ELSE IF comp \in TouchedTargets[p] THEN comp
    ELSE StopWalk(p, AttachParent[comp])

\* TryStopTouching that ends the touch before it ends the pinch.
StopNotificationsTouchEndFirst(p, comp) ==
    IF ImplementsTargetInterface(comp)
    THEN <<Notify("TouchEnded", comp, p)>>
            \o (IF bIsPinched[p] THEN <<Notify("PinchEnded", comp, p)>> ELSE <<>>)
    ELSE <<>>

\* TryStopTouching that tells the component it removed nothing.
StopNotificationsSilent(p, comp) == <<>>

\* What TryStopTouching tells the component it removed.
StopNotifications(p, comp) ==
    IF ImplementsTargetInterface(comp)
    THEN (IF bIsPinched[p] THEN <<Notify("PinchEnded", comp, p)>> ELSE <<>>)
            \o <<Notify("TouchEnded", comp, p)>>
    ELSE <<>>

\* StopAllTouching without the pinch-end of a pinching pointer.
RECURSIVE StopAllNotificationsNoPinchEnd(_, _)
StopAllNotificationsNoPinchEnd(p, order) ==
    IF order = <<>> THEN <<>>
    ELSE LET comp == Get(Head(order)) IN
         (IF comp # None THEN <<Notify("TouchEnded", comp, p)>> ELSE <<>>)
         \o StopAllNotificationsNoPinchEnd(p, Tail(order))

\* The loop of StopAllTouching over the handles in the order given.
RECURSIVE StopAllNotifications(_, _)
StopAllNotifications(p, order) ==
    IF order = <<>> THEN <<>>
    ELSE LET comp == Get(Head(order)) IN
         (IF comp # None
          THEN (IF bIsPinched[p] THEN <<Notify("PinchEnded", comp, p)>> ELSE <<>>)
                  \o <<Notify("TouchEnded", comp, p)>>
          ELSE <<>>)
         \o StopAllNotifications(p, Tail(order))

\* The loop of SetPinched over the handles in the order given.  The block
\* that ends the pinch follows the if without an else, so it runs on both
\* directions of the transition.
RECURSIVE SetPinchedNotifications(_, _, _)
SetPinchedNotifications(p, Enable, order) ==
    IF order = <<>> THEN <<>>
    ELSE LET comp == Get(Head(order)) IN
         (IF comp # None
          THEN (IF Enable THEN <<Notify("PinchStarted", comp, p)>> ELSE <<>>)
                  \o <<Notify("PinchEnded", comp, p)>>
          ELSE <<>>)
         \o SetPinchedNotifications(p, Enable, Tail(order))

\* The record of a call: what was called, with what, what it returned, what
\* it emitted, and the state it was called in.
Call(op, p, comp, enable, ret, emitted) ==
    [op |-> op, pointer |-> p, comp |-> comp, Enable |-> enable, ret |-> ret,
     emitted |-> emitted,
     preTouched |-> IF p = None THEN {} ELSE TouchedTargets[p],
     prePinched |-> IF p = None THEN FALSE ELSE bIsPinched[p],
     prePointers |-> Pointers,
     preValid |-> valid,
     preBegun |-> IF p = None THEN {} ELSE begun[p]]

NoCall == [op |-> "None", pointer |-> None, comp |-> None, Enable |-> FALSE,
           ret |-> FALSE, emitted |-> <<>>, preTouched |-> {},
           prePinched |-> FALSE, prePointers |-> <<>>, preValid |-> Nodes,
           preBegun |-> {}]

\* ----------------------------------------------------- the follow component

\* The follow component's world is one line: a position is a distance along
\* it, a rotation is a yaw in degrees, and the camera looks along the line.

\* UFollowComponent's distances from the camera to its owner.
MinimumDistance == 50
MaximumDistance == 100
DefaultDistance == 75

\* The time over which the distance drifts to DefaultDistance.
MoveToDefaultDistanceLerpTime == 10

\* The angle between the owner's forward vector and the vector to the camera
\* beyond which a world-locked owner turns to the camera.
OrientToCameraDeadzoneDegrees == 60

\* The time over which the working transform closes in on the goal.
LerpTime == 2

\* The longest elapsed time of one tick.
MaxDeltaTime == 2

\* How many ticks a run of the follow component takes.
MaxTicks == 4

\* Where the camera may stand and look, and where the owner may be placed.
CameraPositions == {0, 30}
Yaws == {0, 90}
OwnerPositions == {60, 200}
OrientationTypes == {"FaceCamera", "WorldLock"}

FirstOf(S) == CHOOSE x \in S : \A y \in S : x <= y

\* The members of a UFollowComponent whose owner stands at position, turned
\* to yaw: the three flags as the class declares them, no camera manager yet.
FollowConstructedNoRecenter(position, yaw, orientation) ==
    [OrientationType |-> orientation,
     PlayerCameraManager |-> None,
     GoalPosition |-> position, WorkingPosition |-> position,
     GoalRotation |-> yaw, WorkingRotation |-> yaw,
     bRecenterNextUpdate |-> FALSE,
     bSkipInterpolation |-> FALSE,
     bHaveValidCamera |-> FALSE,
     OwnerPosition |-> position, OwnerRotation |-> yaw]

FollowConstructed(position, yaw, orientation) ==
    [OrientationType |-> orientation,
     PlayerCameraManager |-> None,
     GoalPosition |-> position, WorkingPosition |-> position,
     GoalRotation |-> yaw, WorkingRotation |-> yaw,
     bRecenterNextUpdate |-> TRUE,
     bSkipInterpolation |-> FALSE,
     bHaveValidCamera |-> FALSE,
     OwnerPosition |-> position, OwnerRotation |-> yaw]

\* The pose that stands for no camera.
NoPose == [position |-> 0, yaw |-> 0]

\* The record of a call of the follow component: what was called, the
\* elapsed time it was given, whether it found a camera and the camera's
\* pose, the members when it was called, the ticks without a camera so far,
\* and the ticks so far.
FollowCall(op, DeltaTime, found, camera, idle) ==
    [op |-> op, DeltaTime |-> DeltaTime, found |-> found, camera |-> camera,
     pre |-> follow,
     idleTicks |-> idle,
     ticks |-> IF op = "TickComponent" THEN tick.ticks + 1 ELSE tick.ticks]

NoTick == [op |-> "None", DeltaTime |-> 0, found |-> FALSE, camera |-> NoPose,
           pre |-> FollowConstructed(FirstOf(OwnerPositions), FirstOf(Yaws), "WorldLock"),
           idleTicks |-> 0, ticks |-> 0]

\* What the targets know of a pointer: touch holds the targets whose last
\* touch notification was TouchStarted, pinch those whose last pinch
\* notification was PinchStarted.
RECURSIVE Deliver(_, _)
Deliver(h, evs) ==
    IF evs = <<>> THEN h
    ELSE LET e == Head(evs)
             next == CASE e.ev = "TouchStarted" -> [h EXCEPT !.touch = @ \cup {e.comp}]
                       [] e.ev = "TouchEnded"   -> [h EXCEPT !.touch = @ \ {e.comp}]
                       [] e.ev = "PinchStarted" -> [h EXCEPT !.pinch = @ \cup {e.comp}]
                       [] e.ev = "PinchEnded"   -> [h EXCEPT !.pinch = @ \ {e.comp}]
         IN Deliver(next, Tail(evs))

\* Nothing told yet.  pre is what the targets knew before the last call;
\* proper says that so far every overlap-begin named a node that was not
\* overlapping and every overlap-end a node that was.
NoHistory == [touch |-> {}, pinch |-> {}, pre |-> [touch |-> {}, pinch |-> {}],
              proper |-> TRUE]

InitTouch ==
    /\ Pointers = <<>>
    /\ bHasBegunPlay = [p \in Ptrs |-> FALSE]
    /\ TouchedTargets = [p \in Ptrs |-> {}]
    /\ bIsPinched = [p \in Ptrs |-> FALSE]
    /\ TouchRadius = [p \in Ptrs |-> DefaultRadius]
    /\ AttachParent = SceneParent
    /\ valid = Nodes
    /\ last = NoCall
    /\ before = NoCall
    /\ begun = [p \in Ptrs |-> {}]
    /\ history = NoHistory

Init ==
    /\ InitTouch
    /\ follow = FollowConstructed(FirstOf(OwnerPositions), FirstOf(Yaws), "WorldLock")
    /\ tick = NoTick

\* TryStartTouching that answers true also when the walk finds no target.
TryStartTouchingReturnsTrue(p, comp) ==
    /\ bHasBegunPlay[p]
    /\ comp \in valid
    /\ LET target == StartWalk(comp) IN
       IF target # None
       THEN /\ TouchedTargets' = [TouchedTargets EXCEPT ![p] = @ \cup {target}]
            /\ last' = Call("TryStartTouching", p, comp, FALSE, TRUE,
                            StartNotifications(p, target))
       ELSE /\ UNCHANGED TouchedTargets
            /\ last' = Call("TryStartTouching", p, comp, FALSE, TRUE, <<>>)
    /\ UNCHANGED <<Pointers, bHasBegunPlay, bIsPinched, TouchRadius, AttachParent, valid>>

\* bool UTouchPointer::TryStartTouching(USceneComponent *comp), reached from
\* OnPointerBeginOverlap while the overlap delegates are bound.
TryStartTouching(p, comp) ==
    /\ bHasBegunPlay[p]
    /\ comp \in valid
    /\ LET target == StartWalk(comp) IN
       IF target # None
       THEN /\ TouchedTargets' = [TouchedTargets EXCEPT ![p] = @ \cup {target}]
            /\ last' = Call("TryStartTouching", p, comp, FALSE, TRUE,
                            StartNotifications(p, target))
       ELSE /\ UNCHANGED TouchedTargets
            /\ last' = Call("TryStartTouching", p, comp, FALSE, FALSE, <<>>)
    /\ UNCHANGED <<Pointers, bHasBegunPlay, bIsPinched, TouchRadius, AttachParent, valid>>

\* bool UTouchPointer::TryStopTouching(USceneComponent *comp), reached from
\* OnPointerEndOverlap while the overlap delegates are bound.
TryStopTouching(p, comp) ==
    /\ bHasBegunPlay[p]
    /\ comp \in valid
    /\ LET removed == StopWalk(p, comp) IN
       IF removed # None
       THEN /\ TouchedTargets' = [TouchedTargets EXCEPT ![p] = @ \ {removed}]
            /\ last' = Call("TryStopTouching", p, comp, FALSE, TRUE,
                            StopNotifications(p, removed))
       ELSE /\ UNCHANGED TouchedTargets
            /\ last' = Call("TryStopTouching", p, comp, FALSE, FALSE, <<>>)
    /\ UNCHANGED <<Pointers, bHasBegunPlay, bIsPinched, TouchRadius, AttachParent, valid>>

\* void UTouchPointer::BeginPlay()
BeginPlay(p) ==
    /\ ~bHasBegunPlay[p]
    /\ bHasBegunPlay' = [bHasBegunPlay EXCEPT ![p] = TRUE]
    /\ Pointers' = Append(Pointers, p)
    /\ last' = Call("BeginPlay", p, None, FALSE, FALSE, <<>>)
    /\ UNCHANGED <<TouchedTargets, bIsPinched, TouchRadius, AttachParent, valid>>

\* EndPlay without Pointers.Remove(this).
EndPlayLeavesRegistry(p) ==
    /\ bHasBegunPlay[p]
    /\ \E order \in Orders(TouchedTargets[p]) :
          last' = Call("EndPlay", p, None, FALSE, FALSE, StopAllNotifications(p, order))
    /\ TouchedTargets' = [TouchedTargets EXCEPT ![p] = {}]
    /\ bHasBegunPlay' = [bHasBegunPlay EXCEPT ![p] = FALSE]
    /\ UNCHANGED <<Pointers, bIsPinched, TouchRadius, AttachParent, valid>>

\* void UTouchPointer::EndPlay(): StopAllTouching(), then Pointers.Remove(this)
\* and the overlap delegates are unbound.
EndPlay(p) ==
    /\ bHasBegunPlay[p]
    /\ \E order \in Orders(TouchedTargets[p]) :
          last' = Call("EndPlay", p, None, FALSE, FALSE, StopAllNotifications(p, order))
    /\ TouchedTargets' = [TouchedTargets EXCEPT ![p] = {}]
    /\ Pointers' = SelectSeq(Pointers, LAMBDA q : q # p)
    /\ bHasBegunPlay' = [bHasBegunPlay EXCEPT ![p] = FALSE]
    /\ UNCHANGED <<bIsPinched, TouchRadius, AttachParent, valid>>

\* SetPinched without the test that the flag changes.
SetPinchedUnguarded(p, Enable) ==
    /\ \E order \in Orders(TouchedTargets[p]) :
          last' = Call("SetPinched", p, None, Enable, FALSE,
                       SetPinchedNotifications(p, Enable, order))
    /\ bIsPinched' = [bIsPinched EXCEPT ![p] = Enable]
    /\ UNCHANGED <<Pointers, bHasBegunPlay, TouchedTargets, TouchRadius, AttachParent, valid>>

\* void UTouchPointer::SetPinched(bool Enable)
SetPinched(p, Enable) ==
    /\ IF bIsPinched[p] # Enable
       THEN /\ \E order \in Orders(TouchedTargets[p]) :
                  last' = Call("SetPinched", p, None, Enable, FALSE,
                               SetPinchedNotifications(p, Enable, order))
            /\ bIsPinched' = [bIsPinched EXCEPT ![p] = Enable]
       ELSE /\ last' = Call("SetPinched", p, None, Enable, FALSE, <<>>)
            /\ UNCHANGED bIsPinched
    /\ UNCHANGED <<Pointers, bHasBegunPlay, TouchedTargets, TouchRadius, AttachParent, valid>>

\* void UTouchPointer::SetTouchRadius(float radius)
SetTouchRadius(p, radius) ==
    /\ TouchRadius' = [TouchRadius EXCEPT ![p] = radius]
    /\ last' = Call("SetTouchRadius", p, None, FALSE, FALSE, <<>>)
    /\ UNCHANGED <<Pointers, bHasBegunPlay, TouchedTargets, bIsPinched, AttachParent, valid>>

\* const TArray<UTouchPointer*>& UTouchPointer::GetAllPointers()
GetAllPointers == Pointers

\* bool UTouchPointer::GetPinched() const
GetPinched(p) == bIsPinched[p]

\* The level destroys a component: weak handles to it resolve to nothing from
\* now on, and its children are attached to its parent.
DestroyComponent(comp) ==
    /\ comp \in valid
    /\ Cardinality(Nodes \ valid) < MaxDestroyed
    /\ valid' = valid \ {comp}
    /\ AttachParent' = [n \in Nodes |->
                          IF n = comp THEN None
                          ELSE IF AttachParent[n] = comp THEN AttachParent[comp]
                          ELSE AttachParent[n]]
    /\ last' = Call("DestroyComponent", None, comp, FALSE, FALSE, <<>>)
    /\ UNCHANGED <<Pointers, bHasBegunPlay, TouchedTargets, bIsPinched, TouchRadius>>

Next ==
    \/ \E p \in Ptrs : BeginPlay(p) /\ UNCHANGED <<before, begun, history, follow, tick>>
    \/ \E p \in Ptrs : EndPlay(p) /\ UNCHANGED <<before, begun, history, follow, tick>>
    \/ \E p \in Ptrs, comp \in Nodes : TryStartTouching(p, comp) /\ UNCHANGED <<before, begun, history, follow, tick>>
    \/ \E p \in Ptrs, comp \in Nodes : TryStopTouching(p, comp) /\ UNCHANGED <<before, begun, history, follow, tick>>
    \/ \E p \in Ptrs, Enable \in BOOLEAN : SetPinched(p, Enable) /\ UNCHANGED <<before, begun, history, follow, tick>>
    \/ \E p \in Ptrs, radius \in Radii : SetTouchRadius(p, radius) /\ UNCHANGED <<before, begun, history, follow, tick>>
    \/ \E comp \in Nodes : DestroyComponent(comp) /\ UNCHANGED <<before, begun, history, follow, tick>>

Spec == Init /\ [][Next]_vars

\* ------------------------------------------------------- overlap tracking

\* The pointer the overlap-tracking runs follow.
Tracked == "LeftHand"

\* The overlap-tracking runs follow the touch and pinch calls of one pointer
\* in a level that destroys nothing, and keep three records more: the call
\* before the last one, the nodes the pointer has been told it began to
\* overlap and not yet that it stopped (the delegates are unbound by EndPlay,
\* so nothing is pending then), and what the targets have been told.
Keep(pending, matched) ==
    /\ before' = last
    /\ begun' = [begun EXCEPT ![Tracked] = pending]
    /\ history' = LET now == [touch |-> history.touch, pinch |-> history.pinch]
                      then == Deliver(now, last'.emitted)
                  IN [touch |-> then.touch, pinch |-> then.pinch, pre |-> now,
                      proper |-> history.proper /\ matched]
    /\ UNCHANGED <<follow, tick>>

NextTracked ==
    \/ BeginPlay(Tracked) /\ Keep(begun[Tracked], TRUE)
    \/ EndPlay(Tracked) /\ Keep({}, TRUE)
    \/ \E comp \in Nodes :
          TryStartTouching(Tracked, comp)
              /\ Keep(begun[Tracked] \cup {comp}, comp \notin begun[Tracked])
    \/ \E comp \in Nodes :
          TryStopTouching(Tracked, comp)
              /\ Keep(begun[Tracked] \ {comp}, comp \in begun[Tracked])
    \/ \E Enable \in BOOLEAN : SetPinched(Tracked, Enable) /\ Keep(begun[Tracked], TRUE)

SpecTracked == Init /\ [][NextTracked]_vars

\* ------------------------------------------------------ following the camera

touchVars == <<Pointers, bHasBegunPlay, TouchedTargets, bIsPinched, TouchRadius,
               AttachParent, valid, last, before, begun, history>>

\* The poses the camera manager may report on a tick.
CameraPoses == [position : CameraPositions, yaw : Yaws]

Clamp(x, lo, hi) == IF x < lo THEN lo ELSE IF x > hi THEN hi ELSE x

\* The step from one value towards another that DeltaTime allows when the
\* whole way takes time.
Interp(from, to, DeltaTime, time) ==
    IF DeltaTime >= time THEN to ELSE from + ((to - from) * DeltaTime) \div time

\* The yaw of an owner that faces a camera looking along yaw.
FaceCamera(yaw) == (yaw + 180) % 360

\* The angle between two yaws.
AngleBetween(a, b) ==
    LET d == (a - b) % 360 IN IF d > 180 THEN 360 - d ELSE d

\* The goal of one tick with the camera at pose.  A pending recenter puts
\* the goal at DefaultDistance in front of the camera, facing it, and asks
\* for one update without interpolation.  Otherwise the distance is clamped
\* to [MinimumDistance, MaximumDistance] and drifts to DefaultDistance, and a
\* world-locked owner keeps its rotation unless it was clamped or has left
\* the dead zone.
FollowGoal(f, DeltaTime, pose) ==
    IF f.bRecenterNextUpdate
    THEN [f EXCEPT !.GoalPosition = pose.position + DefaultDistance,
                   !.GoalRotation = FaceCamera(pose.yaw),
                   !.bSkipInterpolation = TRUE,
                   !.bRecenterNextUpdate = FALSE,
                   !.bHaveValidCamera = TRUE]
    ELSE LET distance == f.GoalPosition - pose.position
             clamped == Clamp(distance, MinimumDistance, MaximumDistance)
             drifted == Interp(clamped, DefaultDistance, DeltaTime,
                               MoveToDefaultDistanceLerpTime)
             turn == \/ f.OrientationType = "FaceCamera"
                     \/ clamped # distance
                     \/ AngleBetween(f.WorkingRotation, FaceCamera(pose.yaw))
                            > OrientToCameraDeadzoneDegrees
         IN [f EXCEPT !.GoalPosition = pose.position + drifted,
                      !.GoalRotation = IF turn THEN FaceCamera(pose.yaw) ELSE @,
                      !.bHaveValidCamera = TRUE]

\* UpdateTransformToGoal that does not clear the request to skip the
\* interpolation.
UpdateTransformToGoalKeepsSkipping(f, DeltaTime) ==
    LET snap == f.bSkipInterpolation
        position == IF snap THEN f.GoalPosition
                    ELSE Interp(f.WorkingPosition, f.GoalPosition, DeltaTime, LerpTime)
        rotation == IF snap THEN f.GoalRotation
                    ELSE Interp(f.WorkingRotation, f.GoalRotation, DeltaTime, LerpTime)
    IN [f EXCEPT !.WorkingPosition = position, !.WorkingRotation = rotation,
                 !.OwnerPosition = position, !.OwnerRotation = rotation]

\* void UFollowComponent::UpdateTransformToGoal(float DeltaTime): the working
\* transform is set to the goal when the interpolation is to be skipped, and
\* moved towards it otherwise; it is then given to the owner.
UpdateTransformToGoal(f, DeltaTime) ==
    LET snap == f.bSkipInterpolation
        position == IF snap THEN f.GoalPosition
                    ELSE Interp(f.WorkingPosition, f.GoalPosition, DeltaTime, LerpTime)
        rotation == IF snap THEN f.GoalRotation
                    ELSE Interp(f.WorkingRotation, f.GoalRotation, DeltaTime, LerpTime)
    IN [f EXCEPT !.WorkingPosition = position, !.WorkingRotation = rotation,
                 !.OwnerPosition = position, !.OwnerRotation = rotation,
                 !.bSkipInterpolation = FALSE]

\* The level's player camera manager comes to exist.
AcquireCamera ==
    /\ follow.PlayerCameraManager = None
    /\ follow' = [follow EXCEPT !.PlayerCameraManager = "Camera"]
    /\ tick' = FollowCall("AcquireCamera", 0, FALSE, NoPose, tick.idleTicks)

\* void UFollowComponent::Recenter()
Recenter ==
    /\ follow' = [follow EXCEPT !.bRecenterNextUpdate = TRUE]
    /\ tick' = FollowCall("Recenter", 0, FALSE, NoPose, tick.idleTicks)

\* TickComponent that does not ask whether there is a camera manager.
TickComponentWithoutCamera(DeltaTime, pose) ==
    /\ tick.ticks < MaxTicks
    /\ follow' = UpdateTransformToGoal(FollowGoal(follow, DeltaTime, pose), DeltaTime)
    /\ tick' = FollowCall("TickComponent", DeltaTime,
                          follow.PlayerCameraManager # None,
                          IF follow.PlayerCameraManager = None THEN NoPose ELSE pose,
                          IF follow.PlayerCameraManager = None
                          THEN tick.idleTicks + 1 ELSE tick.idleTicks)

\* void UFollowComponent::TickComponent(float DeltaTime, ...): nothing without
\* a camera manager; with one, the goal and then the working transform.
TickComponent(DeltaTime, pose) ==
    /\ tick.ticks < MaxTicks
    /\ IF follow.PlayerCameraManager = None
       THEN
         /\ UNCHANGED follow
         /\ tick' = FollowCall("TickComponent", DeltaTime, FALSE, NoPose, tick.idleTicks + 1)
       ELSE
         /\ follow' = UpdateTransformToGoal(FollowGoal(follow, DeltaTime, pose), DeltaTime)
         /\ tick' = FollowCall("TickComponent", DeltaTime, TRUE, pose, tick.idleTicks)

\* The follow component as its owner begins play, wherever the owner stands
\* and however it is configured.
InitFollow ==
    /\ InitTouch
    /\ \E position \in OwnerPositions, yaw \in Yaws, orientation \in OrientationTypes :
          /\ follow = FollowConstructed(position, yaw, orientation)
          /\ tick = [NoTick EXCEPT !.pre = follow]

NextFollow ==
    \/ AcquireCamera /\ UNCHANGED touchVars
    \/ Recenter /\ UNCHANGED touchVars
    \/ \E DeltaTime \in 1..MaxDeltaTime, pose \in CameraPoses :
          TickComponent(DeltaTime, pose) /\ UNCHANGED touchVars

SpecFollow == InitFollow /\ [][NextFollow]_vars

\* ------------------------------------------------------------ the claims

\* The attachment chain from comp upwards, comp first.
RECURSIVE UpChain(_)
UpChain(comp) == IF comp = None THEN <<>> ELSE <<comp>> \o UpChain(AttachParent[comp])

\* The nearest component on comp's chain that implements the target
\* interface, comp included; None when the chain holds none.
NearestImplementer(comp) ==
    LET ch == UpChain(comp)
        hits == {i \in 1..Len(ch) : ch[i] \in Implementers}
    IN IF hits = {} THEN None
       ELSE ch[CHOOSE i \in hits : \A j \in hits : i <= j]

\* The targets among the handles of the last call's pointer that still
\* resolved when the call was made.
LiveTouched == last.preTouched \cap last.preValid

\* The pointers in the registry.
Registered == {GetAllPointers[i] : i \in 1..Len(GetAllPointers)}

\* C1 (stated as claimed): TryStartTouching on a node whose walk resolves to
\* a target already in the touched set sends that target no touch-start.
C1_DuplicateBeginNoOp ==
    last.op = "TryStartTouching" =>
        \A i \in 1..Len(last.emitted) :
            last.emitted[i].ev = "TouchStarted" => last.emitted[i].comp \notin last.preTouched

\* C2 (stated as claimed): a SetPinched that changes the flag with N live
\* touched targets emits exactly N notifications, one per target, all
\* PinchStarted when enabling and all PinchEnded when disabling.
C2_PinchTransitionSymmetry ==
    (last.op = "SetPinched" /\ last.prePinched # last.Enable) =>
        LET kind == IF last.Enable THEN "PinchStarted" ELSE "PinchEnded" IN
        /\ Len(last.emitted) = Cardinality(LiveTouched)
        /\ \A i \in 1..Len(last.emitted) : last.emitted[i].ev = kind
        /\ \A t \in LiveTouched : Count(last.emitted, kind, t) = 1

\* C3 (stated as claimed): an overlap-begin on a node followed at once by the
\* overlap-end on the same node leaves the touched set as large as it was
\* before the begin, and emits as many touch-starts as touch-ends.
C3_TouchSymmetry ==
    (/\ before.op = "TryStartTouching"
     /\ last.op = "TryStopTouching"
     /\ before.pointer = last.pointer
     /\ before.comp = last.comp) =>
        /\ Cardinality(TouchedTargets[last.pointer]) = Cardinality(before.preTouched)
        /\ CountKind(before.emitted, "TouchStarted") = CountKind(last.emitted, "TouchEnded")

\* C4 (stated as claimed): an overlap-end for a node with no unmatched
\* overlap-begin leaves the touched set as it was and emits nothing.
C4_UnmatchedEndNoOp ==
    (last.op = "TryStopTouching" /\ last.comp \notin last.preBegun) =>
        /\ TouchedTargets[last.pointer] = last.preTouched
        /\ last.emitted = <<>>

\* C5: EndPlay sends every live touched target exactly one touch-end, with
\* exactly one pinch-end right before it if and only if the pointer is
\* pinching, and nothing else; afterwards the touched set is empty and the
\* pointer is not in the registry.
C5_DeactivationCleanup ==
    last.op = "EndPlay" =>
        /\ \A t \in LiveTouched :
              /\ Count(last.emitted, "TouchEnded", t) = 1
              /\ Count(last.emitted, "PinchEnded", t) = (IF last.prePinched THEN 1 ELSE 0)
              /\ last.prePinched =>
                    \E i \in 1..(Len(last.emitted) - 1) :
                        /\ last.emitted[i] = Notify("PinchEnded", t, last.pointer)
                        /\ last.emitted[i + 1] = Notify("TouchEnded", t, last.pointer)
        /\ \A i \in 1..Len(last.emitted) :
              /\ last.emitted[i].comp \in LiveTouched
              /\ last.emitted[i].ev \in {"TouchEnded", "PinchEnded"}
        /\ TouchedTargets[last.pointer] = {}
        /\ last.pointer \notin Registered

C5_Witness ==
    /\ last.op = "EndPlay"
    /\ last.prePinched
    /\ Cardinality(LiveTouched) = 2
    /\ Len(last.prePointers) = 2

\* C6: an overlap-begin on a node that does not implement the target
\* interface, whose nearest implementing ancestor A is not touched, adds
\* exactly A to the touched set and sends touch-start to A and nothing to any
\* other node; the overlap-end on the same node that follows removes A and
\* sends touch-end to A.
NestedBegin(call) ==
    /\ call.op = "TryStartTouching"
    /\ ~ImplementsTargetInterface(call.comp)
    /\ NearestImplementer(call.comp) # None
    /\ NearestImplementer(call.comp) \notin call.preTouched

C6_NestedHierarchy ==
    /\ NestedBegin(last) =>
          LET A == NearestImplementer(last.comp) IN
          /\ TouchedTargets[last.pointer] = last.preTouched \cup {A}
          /\ Count(last.emitted, "TouchStarted", A) = 1
          /\ \A i \in 1..Len(last.emitted) : last.emitted[i].comp = A
    /\ (/\ NestedBegin(before)
        /\ last.op = "TryStopTouching"
        /\ last.pointer = before.pointer
        /\ last.comp = before.comp) =>
          LET A == NearestImplementer(last.comp) IN
          /\ TouchedTargets[last.pointer] = last.preTouched \ {A}
          /\ A \notin TouchedTargets[last.pointer]
          /\ Count(last.emitted, "TouchEnded", A) = 1

C6_Witness ==
    /\ NestedBegin(before)
    /\ before.comp = "ColA2"
    /\ "B" \in before.preTouched
    /\ last.op = "TryStopTouching"
    /\ last.comp = "ColA2"
    /\ last.emitted = <<Notify("TouchEnded", "A", Tracked)>>
    /\ TouchedTargets[Tracked] = {"B"}

\* C7: TryStartTouching returns true exactly when the chain from its node
\* upwards holds a component implementing the target interface; when it
\* holds none, the touched set and the pinch flag stay as they were and
\* nothing is emitted.
C7_DroppedBegin ==
    last.op = "TryStartTouching" =>
        /\ last.ret <=> (NearestImplementer(last.comp) # None)
        /\ NearestImplementer(last.comp) = None =>
              /\ TouchedTargets[last.pointer] = last.preTouched
              /\ bIsPinched[last.pointer] = last.prePinched
              /\ last.emitted = <<>>

C7_Witness ==
    /\ last.op = "TryStartTouching"
    /\ last.comp = "Loose"
    /\ ~last.ret
    /\ last.prePinched
    /\ last.preTouched # {}

\* C8: the registry holds every pointer that has begun play exactly once and
\* no other pointer, and only BeginPlay and EndPlay change it.
C8_PointerRegistry ==
    /\ \A p \in Ptrs :
          Cardinality({i \in 1..Len(GetAllPointers) : GetAllPointers[i] = p})
              = (IF bHasBegunPlay[p] THEN 1 ELSE 0)
    /\ Registered \subseteq Ptrs
    /\ last.op \notin {"BeginPlay", "EndPlay"} => GetAllPointers = last.prePointers

C8_Witness ==
    /\ last.op = "EndPlay"
    /\ last.prePointers = <<"LeftHand", "RightHand">>
    /\ GetAllPointers = <<"RightHand">>

C10_SetPinchedNoOp ==
    last.op = "SetPinched" =>
        /\ GetPinched(last.pointer) = last.Enable
        /\ TouchedTargets[last.pointer] = last.preTouched
        /\ last.prePinched = last.Enable =>
              /\ last.emitted = <<>>
              /\ GetPinched(last.pointer) = last.prePinched

C10_Witness ==
    /\ last.op = "SetPinched"
    /\ last.Enable
    /\ last.prePinched
    /\ LiveTouched # {}

\* A tick of the follow component that found a camera manager.
CameraTick == tick.op = "TickComponent" /\ tick.found

\* The working transform is the goal transform, and the owner has it.
Snapped ==
    /\ follow.WorkingPosition = follow.GoalPosition
    /\ follow.WorkingRotation = follow.GoalRotation
    /\ follow.OwnerPosition = follow.GoalPosition
    /\ follow.OwnerRotation = follow.GoalRotation

\* C11: the follow component starts with the recenter pending, and the first
\* tick that finds a camera sets the working transform to the goal transform
\* without interpolation, for every elapsed time and after any number of
\* ticks without a camera.
C11_FirstFrameSnap ==
    /\ tick.op = "None" => follow.bRecenterNextUpdate
    /\ (CameraTick /\ ~tick.pre.bHaveValidCamera) =>
          /\ Snapped
          /\ follow.bHaveValidCamera

C11_Witness ==
    /\ CameraTick
    /\ ~tick.pre.bHaveValidCamera
    /\ tick.idleTicks = 2
    /\ tick.DeltaTime = 1
    /\ Interp(tick.pre.WorkingPosition, follow.GoalPosition, 1, LerpTime) # follow.GoalPosition
    /\ Snapped

\* C12: Recenter() makes the recenter pending; the next tick that finds a
\* camera puts the goal at DefaultDistance before the camera and sets the
\* working transform to it exactly, and clears both flags; a tick with no
\* recenter pending interpolates.
C12_RecenterSnapOneShot ==
    /\ tick.op = "Recenter" => follow.bRecenterNextUpdate
    /\ (CameraTick /\ tick.pre.bRecenterNextUpdate) =>
          /\ Snapped
          /\ follow.GoalPosition = tick.camera.position + DefaultDistance
          /\ ~follow.bRecenterNextUpdate
          /\ ~follow.bSkipInterpolation
    /\ (CameraTick /\ ~tick.pre.bRecenterNextUpdate) =>
          /\ follow.WorkingPosition =
                Interp(tick.pre.WorkingPosition, follow.GoalPosition, tick.DeltaTime, LerpTime)
          /\ follow.WorkingRotation =
                Interp(tick.pre.WorkingRotation, follow.GoalRotation, tick.DeltaTime, LerpTime)
          /\ ~follow.bRecenterNextUpdate
          /\ ~follow.bSkipInterpolation

C12_Witness ==
    /\ CameraTick
    /\ tick.pre.bRecenterNextUpdate
    /\ tick.pre.bHaveValidCamera
    /\ tick.DeltaTime = 1
    /\ tick.pre.WorkingPosition # follow.GoalPosition
    /\ tick.pre.WorkingRotation # follow.GoalRotation
    /\ Snapped

\* C13: a tick that finds no camera changes no member of the follow
\* component and not its owner's transform, and the recenter stays pending
\* until a tick finds a camera.
C13_MissingCameraNoOp ==
    /\ (tick.op = "TickComponent" /\ ~tick.found) => follow = tick.pre
    /\ ~follow.bHaveValidCamera => follow.bRecenterNextUpdate

C13_Witness ==
    /\ tick.op = "TickComponent"
    /\ ~tick.found
    /\ tick.idleTicks = 2
    /\ tick.DeltaTime = 2
    /\ follow.bRecenterNextUpdate
    /\ follow = tick.pre

\* C14: a TryStartTouching that newly touches a target T tells T
\* TouchStarted first, then PinchStarted if and only if the pointer is
\* pinching, and nothing else; no TryStartTouching of a pointer that is not
\* pinching sends a PinchStarted.
C14_BeginWhilePinching ==
    /\ (/\ last.op = "TryStartTouching"
        /\ last.ret
        /\ NearestImplementer(last.comp) \notin last.preTouched) =>
           LET T == NearestImplementer(last.comp) IN
           last.emitted =
               <<Notify("TouchStarted", T, last.pointer)>>
                   \o (IF last.prePinched
                       THEN <<Notify("PinchStarted", T, last.pointer)>> ELSE <<>>)
    /\ (last.op = "TryStartTouching" /\ ~last.prePinched) =>
           CountKind(last.emitted, "PinchStarted") = 0

C14_Witness ==
    /\ last.op = "TryStartTouching"
    /\ last.comp = "ColA1"
    /\ "A" \notin last.preTouched
    /\ last.prePinched
    /\ Len(last.emitted) = 2

\* C15: a TryStopTouching that removes a target T tells T PinchEnded and
\* then TouchEnded when the pointer is pinching, and only TouchEnded when it
\* is not.  TouchEnded is the last T hears of that touch: nothing follows it
\* in the same call, T is out of the touched set afterwards, and a target
\* out of the touched set is told nothing before a TouchStarted.
C15_EndOrdering ==
    /\ (last.op = "TryStopTouching" /\ last.ret) =>
          \E T \in last.preTouched :
              /\ TouchedTargets[last.pointer] = last.preTouched \ {T}
              /\ last.emitted =
                    (IF last.prePinched
                     THEN <<Notify("PinchEnded", T, last.pointer)>> ELSE <<>>)
                        \o <<Notify("TouchEnded", T, last.pointer)>>
    /\ \A i \in 1..Len(last.emitted) :
          /\ last.emitted[i].ev = "TouchEnded" =>
                /\ \A j \in (i + 1)..Len(last.emitted) :
                      last.emitted[j].comp # last.emitted[i].comp
                /\ last.emitted[i].comp \notin TouchedTargets[last.pointer]
          /\ last.emitted[i].comp \notin last.preTouched =>
                \E j \in 1..i : last.emitted[j] =
                    Notify("TouchStarted", last.emitted[i].comp, last.pointer)

C15_Witness ==
    /\ last.op = "TryStopTouching"
    /\ last.comp = "ColA2"
    /\ last.prePinched
    /\ last.preTouched = {"A", "B"}
    /\ last.emitted = <<Notify("PinchEnded", "A", last.pointer),
                        Notify("TouchEnded", "A", last.pointer)>>

\* The pinch notifications in evs are well nested for targets that know h:
\* PinchStarted comes to a touched target with no pinch open, PinchEnded to
\* a touched target with a pinch open.
RECURSIVE PinchNested(_, _)
PinchNested(h, evs) ==
    IF evs = <<>> THEN TRUE
    ELSE LET e == Head(evs) IN
         /\ e.ev = "PinchStarted" => (e.comp \in h.touch /\ e.comp \notin h.pinch)
         /\ e.ev = "PinchEnded" => (e.comp \in h.touch /\ e.comp \in h.pinch)
         /\ PinchNested(Deliver(h, <<e>>), Tail(evs))

\* C16 (stated as claimed): the pinch notifications a pointer sends a target
\* alternate PinchStarted, PinchEnded, beginning with PinchStarted, lie
\* between a TouchStarted and the TouchEnded that follows it, and no
\* PinchEnded comes without an open PinchStarted.
C16_PinchWellNested == PinchNested(history.pre, last.emitted)

\* C17 (stated as claimed): while overlap events come as overlaps do (a
\* begin for a node not overlapping, an end for a node overlapping), the
\* nearest implementing ancestor of every node with a begin and no end yet
\* is in the touched set.
C17_TouchedTracksOverlaps ==
    history.proper =>
        \A n \in begun[Tracked] :
            NearestImplementer(n) # None => NearestImplementer(n) \in TouchedTargets[Tracked]

\* C18 (stated as claimed): TryStopTouching(node) removes at most one target,
\* the nearest implementing ancestor of node, and notifies no other.
C18_StopRemovesNearestOnly ==
    last.op = "TryStopTouching" =>
        LET T == NearestImplementer(last.comp) IN
        /\ (last.preTouched \ TouchedTargets[last.pointer]) \subseteq {T}
        /\ \A i \in 1..Len(last.emitted) : last.emitted[i].comp = T

\* C19: a target is in the pointer's touched set if and only if the last
\* touch notification the pointer sent it is TouchStarted; every member of
\* the set implements the target interface, and TouchEnded goes only to
\* targets that were in the set when the call was made.
C19_TouchedMirrorsEvents ==
    /\ history.touch = TouchedTargets[Tracked]
    /\ TouchedTargets[Tracked] \subseteq Implementers
    /\ \A i \in 1..Len(last.emitted) :
          last.emitted[i].ev = "TouchEnded" =>
              /\ last.emitted[i].comp \in last.preTouched
              /\ last.emitted[i].comp \in history.pre.touch

C19_Witness ==
    /\ last.op = "TryStopTouching"
    /\ last.ret
    /\ before.op = "SetPinched"
    /\ history.pre.touch = {"A", "B"}
    /\ history.touch = {"B"}
    /\ TouchedTargets[Tracked] = {"B"}

====
